---- MODULE Spec2Model ----
(***************************************************************************)
(* Gator Game: the timing/scheduling subsystem (timer.js), the trial       *)
(* engine (engine.js), the shared state store (state.js), the animation    *)
(* controller (animations.js), the trial log (data.js) and the screen     *)
(* sequencer (screens.js), as one state machine.                           *)
(*                                                                         *)
(* One action is one macrotask of the JavaScript event loop: a click, a    *)
(* visibility change, or a setTimeout callback, run to completion together *)
(* with the promise continuations (microtasks) it makes runnable.          *)
(*                                                                         *)
(* Time is abstract: an armed timeout may fire at any moment.  The only    *)
(* ordering kept from real time is stated at CountdownMayFire.             *)
(***************************************************************************)
EXTENDS Integers, Sequences, FiniteSets, TLC

(***************************************************************************)
(* Bounds of the model.                                                    *)
(***************************************************************************)
\* accepted choices per session
MaxTrials == 2
\* one-second ticks of a segment: CONDITION_DURATION_MS is scaled to this
SegmentTicks == 2
\* runs of resetForNewPhase per session (segments started)
MaxResets == 2
\* accepted choices in SpecDeep
MaxDeepTrials == 6
\* SpecTimer: clock steps per countdown interval (the clock's resolution)
StepsPerInterval == 2
\* SpecTimer: clock steps of a run
MaxClockSteps == 8
\* SpecTimer: ticks of the countdown made by createCountdown
BenchCountdownTicks == 2

(***************************************************************************)
(* config.js                                                               *)
(***************************************************************************)
COUNTDOWN_INTERVAL_MS == 1000
CONDITION_DURATION_MS == SegmentTicks * COUNTDOWN_INTERVAL_MS
DAYS_PER_CONDITION == 5
STARTING_ENERGY == 50
MAX_ENERGY == 100
SMALLER_SOONER_REWARD == 1
INITIAL_DELAY_MS == 6000
DELAY_STEP_MS == 2000
MIN_DELAY_MS == 2000
EXPOSURE_REWARD == 10
EXPOSURE_MIN_FISH == 3
EXPOSURE_MIN_LL == 3
EXPOSURE_DRAIN_INTERVAL_MS == 3000
NUM_CONDITIONS == 4
GROUPS == [A |-> 5, B |-> 5, C |-> 10, D |-> 10]

Max(a, b) == IF a >= b THEN a ELSE b
Min(a, b) == IF a <= b THEN a ELSE b
CeilDiv(a, b) == (a + b - 1) \div b

(***************************************************************************)
(* The program's state.                                                    *)
(***************************************************************************)
VARIABLES
  state,               \* state.js: the store
  timers,              \* timer.js: the closures of createTimer/createDelay
                       \*   that can still fire or be resumed, by id
  activeTimers,        \* timer.js: the registry (ids)
  timerId,             \* timer.js: the id counter
  drainTimer,          \* engine.js module variables: an id, or 0 for null
  conditionCountdown,
  activeDelay,
  delayCountdownTimer,
  procs,               \* suspended invocations of handleFishChoice /
                       \*   handleLLChoice, by the number of the choice
  animCleanup,         \* animations.js: alligatorEl._animCleanup per element
  trials,              \* data.js: the trial log
  accepted,            \* history: choices that passed the guard
  rewardGrants,        \* history: runs of the "Award points" block
  gameOverRuns,        \* history: runs of triggerGameOver since the last
                       \*   resetForNewPhase
  resets,              \* history: runs of resetForNewPhase
  choiceEvent,         \* history: the macrotask that ran last was a click on
                       \*   a choice button
  bench,               \* a client of timer.js with a clock (SpecTimer); not
                       \*   used by the game
  config               \* config.js as the screens read it: the drain interval
                       \*   of the exposure phase and the CONDITIONS entry of
                       \*   the conditions (defined or not, drainIntervalMs)

vars == <<state, timers, activeTimers, timerId, drainTimer, conditionCountdown,
          activeDelay, delayCountdownTimer, procs, animCleanup, trials,
          accepted, rewardGrants, gameOverRuns, resets, choiceEvent, bench,
          config>>

\* The whole machine as one value, so that a handler is a function on it and
\* handlers compose the way the calls do.  ready is the microtask queue: the
\* promise continuations made runnable, in order; empty between macrotasks.
Cur ==
  [state |-> state, timers |-> timers, activeTimers |-> activeTimers,
   timerId |-> timerId, drainTimer |-> drainTimer,
   conditionCountdown |-> conditionCountdown, activeDelay |-> activeDelay,
   delayCountdownTimer |-> delayCountdownTimer, procs |-> procs,
   animCleanup |-> animCleanup, trials |-> trials, accepted |-> accepted,
   rewardGrants |-> rewardGrants, gameOverRuns |-> gameOverRuns,
   resets |-> resets, ready |-> <<>>]

Without(f, k) == [x \in (DOMAIN f) \ {k} |-> f[x]]

\* CONFIG.EXPOSURE_DRAIN_INTERVAL_MS and CONFIG.CONDITIONS[id] of the frozen
\* configuration (the conditions differ in drainIntervalMs only, which
\* no code path reads except to hand it to createTimer)
frozenConfig ==
  [exposureDrainIntervalMs |-> EXPOSURE_DRAIN_INTERVAL_MS,
   defined |-> TRUE, drainIntervalMs |-> EXPOSURE_DRAIN_INTERVAL_MS]

(***************************************************************************)
(* state.js                                                                *)
(***************************************************************************)
initialState ==
  [phase |-> "intro", conditionIndex |-> -1, rewardAmount |-> 0,
   currentEnergy |-> STARTING_ENERGY, totalEnergyGained |-> 0,
   conditionElapsedMs |-> 0, daysLeft |-> DAYS_PER_CONDITION,
   currentDelayMs |-> INITIAL_DELAY_MS, trialNumber |-> 0,
   isAnimating |-> FALSE, isWaitingDelay |-> FALSE, isDead |-> FALSE,
   choicesDisabled |-> FALSE, exposureFishCount |-> 0,
   exposureLLCount |-> 0, tabHidden |-> FALSE]

Prefix(phase) == IF phase = "exposure" THEN "exposure" ELSE "condition"

(***************************************************************************)
(* timer.js.  A closure of createTimer or createDelay is a record:         *)
(*   armed    a setTimeout of it is pending (timeoutHandle is live)        *)
(*   paused   its paused flag                                              *)
(*   stopped  history: stop() has been called on it                        *)
(*   resolved (delay) the promise is settled                               *)
(*   tid      (delay) the choice whose handleLLChoice awaits the promise   *)
(*   lastDay, onComplete   (segment countdown) the callback's closure      *)
(* A closure that is neither armed nor registered can never run again and  *)
(* is dropped from timers (Collect).                                       *)
(***************************************************************************)
NewTimer(kind, lastDay, onComplete, tid) ==
  [kind |-> kind, armed |-> TRUE, paused |-> FALSE, stopped |-> FALSE,
   resolved |-> FALSE, tid |-> tid, lastDay |-> lastDay,
   onComplete |-> onComplete]

\* createTimer / createDelay: ++timerId, setTimeout, activeTimers.set
Register(m, t) ==
  LET id == m.timerId + 1
  IN [m EXCEPT !.timerId = id,
               !.timers = @ @@ (id :> t),
               !.activeTimers = @ \cup {id}]

createTimer(m, kind, lastDay, onComplete) ==
  Register(m, NewTimer(kind, lastDay, onComplete, 0))

createDelay(m, tid) == Register(m, NewTimer("delay", 0, "", tid))

\* a stop() that leaves the handle in the registry
StopTimerKeepsHandle(m, id) ==
  [m EXCEPT !.timers[id] = [@ EXCEPT !.armed = FALSE, !.stopped = TRUE]]

\* createTimer's stop(): clearTimeout, activeTimers.delete
StopTimer(m, id) ==
  [m EXCEPT !.timers[id] = [@ EXCEPT !.armed = FALSE, !.stopped = TRUE],
            !.activeTimers = @ \ {id}]

\* a cancel() that forgets to settle the promise
CancelDelayUnresolved(m, id) ==
  [m EXCEPT !.timers[id] = [@ EXCEPT !.armed = FALSE, !.stopped = TRUE],
            !.activeTimers = @ \ {id}]

\* createDelay's cancel(): clearTimeout, activeTimers.delete, resolve(false);
\* resolve on a settled promise does nothing
CancelDelay(m, id) ==
  LET t == m.timers[id]
  IN [m EXCEPT !.timers[id] = [@ EXCEPT !.armed = FALSE, !.stopped = TRUE,
                                        !.resolved = TRUE],
               !.activeTimers = @ \ {id},
               !.ready = IF t.resolved THEN @
                         ELSE Append(@, [tid |-> t.tid, completed |-> FALSE])]

\* timer.stop() through a handle; on a closure already dropped it only
\* clears a null handle and deletes an absent key
Stop(m, id) ==
  IF id \notin DOMAIN m.timers THEN m
  ELSE IF m.timers[id].kind = "delay" THEN CancelDelay(m, id)
  ELSE StopTimer(m, id)

\* pause() of createTimer and of createDelay
PauseTimer(t) ==
  IF t.paused THEN t ELSE [t EXCEPT !.paused = TRUE, !.armed = FALSE]

\* resume() of createTimer and of createDelay
ResumeTimer(t) ==
  IF ~t.paused THEN t ELSE [t EXCEPT !.paused = FALSE, !.armed = TRUE]

Registered(m) == m.activeTimers \cap DOMAIN m.timers

pauseAllTimers(m) ==
  [m EXCEPT !.timers = [id \in DOMAIN @ |->
                          IF id \in m.activeTimers THEN PauseTimer(@[id])
                          ELSE @[id]]]

resumeAllTimers(m) ==
  [m EXCEPT !.timers = [id \in DOMAIN @ |->
                          IF id \in m.activeTimers THEN ResumeTimer(@[id])
                          ELSE @[id]]]

MinOf(S) == CHOOSE x \in S : \A y \in S : x <= y

RECURSIVE StopEach(_, _)
StopEach(m, ids) ==
  IF ids = {} THEN m
  ELSE StopEach(Stop(m, MinOf(ids)), ids \ {MinOf(ids)})

\* for (const [id, timer] of activeTimers) timer.stop(); activeTimers.clear()
stopAllTimers(m) ==
  [StopEach(m, m.activeTimers) EXCEPT !.activeTimers = {}]

\* tick(), after the callback returned: a new setTimeout, unconditionally
Rearm(m, id) == [m EXCEPT !.timers[id].armed = TRUE]

\* the setTimeout callback of createDelay: activeTimers.delete, res(true)
CompleteDelay(m, id) ==
  LET t == m.timers[id]
  IN [m EXCEPT !.timers[id] = [@ EXCEPT !.armed = FALSE, !.resolved = TRUE],
               !.activeTimers = @ \ {id},
               !.ready = IF t.resolved THEN @
                         ELSE Append(@, [tid |-> t.tid, completed |-> TRUE])]

\* closures that can neither fire nor be resumed are garbage
Collect(m) ==
  LET live == {id \in DOMAIN m.timers :
                 m.timers[id].armed \/ id \in m.activeTimers}
  IN [m EXCEPT !.timers = [id \in live |-> @[id]],
               !.procs = [k \in DOMAIN @ |->
                            [@[k] EXCEPT !.ticked = @ \cap live]]]

(***************************************************************************)
(* animations.js.  A suspended handler in its consumption animation is a   *)
(* proc with pc = "anim": its setTimeout is pending; el is the alligator   *)
(* element whose _animCleanup it set.  died is history: triggerGameOver    *)
(* has run since the choice was accepted.                                  *)
(***************************************************************************)
\* playEatingAnimation: alligatorEl._animCleanup = cleanup; setTimeout(...)
playEatingAnimation(m, tid, el) ==
  [m EXCEPT !.animCleanup[el] = tid,
            !.procs[tid] = [@ EXCEPT !.pc = "anim", !.el = el,
                                     !.born = m.timerId, !.ticked = {}]]

\* interruptAnimation: run the element's cleanup, which resolves the promise
interruptAnimation(m, el) ==
  IF m.animCleanup[el] = 0 THEN m
  ELSE [m EXCEPT !.animCleanup[el] = 0,
                 !.ready = Append(@, [tid |-> m.animCleanup[el],
                                      completed |-> TRUE])]

\* the setTimeout callback of playEatingAnimation: cleans up only if
\* _animCleanup is still its own cleanup; otherwise the promise of a proc
\* that was not interrupted stays pending for ever (pc = "lost")
AnimationTimeout(m, tid) ==
  LET el == m.procs[tid].el
  IN IF m.animCleanup[el] = tid
     THEN [m EXCEPT !.animCleanup[el] = 0,
                    !.ready = Append(@, [tid |-> tid, completed |-> TRUE])]
     ELSE [m EXCEPT !.procs[tid].pc = "lost"]

(***************************************************************************)
(* data.js                                                                 *)
(***************************************************************************)
\* a trial log that drops the record
recordTrialDropped(m, tid, choice, delayAtChoice, pointsEarned) == m

\* trials.push({...}).  The fields kept are those the engine decides; tid and
\* died are history (which accepted choice the record is for, and whether
\* triggerGameOver ran while that choice was in flight).  energyBefore and
\* energyAfter are passed through unread and are left out.
recordTrial(m, tid, choice, delayAtChoice, pointsEarned) ==
  [m EXCEPT !.trials = Append(@,
      [tid |-> tid, phase |-> m.state.phase,
       conditionIndex |-> m.state.conditionIndex,
       trialNumber |-> m.state.trialNumber, choice |-> choice,
       delayAtChoice |-> delayAtChoice, pointsEarned |-> pointsEarned,
       totalEnergyGained |-> m.state.totalEnergyGained,
       died |-> m.procs[tid].died])]

(***************************************************************************)
(* engine.js                                                               *)
(***************************************************************************)
startDrain(m) ==
  LET m1 == createTimer(m, "drain", 0, "")
  IN [m1 EXCEPT !.drainTimer = m1.timerId]

stopDrain(m) ==
  IF m.drainTimer = 0 THEN m
  ELSE [Stop(m, m.drainTimer) EXCEPT !.drainTimer = 0]

\* a game over that leaves the delay of a waiting trial running
triggerGameOverKeepsDelay(m) ==
  LET m1 == [m EXCEPT !.state.isDead = TRUE, !.state.choicesDisabled = TRUE,
                      !.gameOverRuns = Min(@ + 1, 2),
                      !.procs = [k \in DOMAIN @ |->
                                   [@[k] EXCEPT !.died = TRUE]]]
      m2 == interruptAnimation(m1, Prefix(m1.state.phase))
      m3 == IF m2.delayCountdownTimer = 0 THEN m2
            ELSE [Stop(m2, m2.delayCountdownTimer)
                    EXCEPT !.delayCountdownTimer = 0]
  IN stopDrain(m3)

triggerGameOver(m) ==
  LET m1 == [m EXCEPT !.state.isDead = TRUE, !.state.choicesDisabled = TRUE,
                      !.gameOverRuns = Min(@ + 1, 2),
                      !.procs = [k \in DOMAIN @ |->
                                   [@[k] EXCEPT !.died = TRUE]]]
      m2 == interruptAnimation(m1, Prefix(m1.state.phase))
      m3 == IF m2.activeDelay = 0 THEN m2
            ELSE [Stop(m2, m2.activeDelay) EXCEPT !.activeDelay = 0]
      m4 == IF m3.delayCountdownTimer = 0 THEN m3
            ELSE [Stop(m3, m3.delayCountdownTimer)
                    EXCEPT !.delayCountdownTimer = 0]
  IN stopDrain(m4)

\* a drain callback without its entry check
NeverAlreadyDead(energy) == FALSE

\* the tick entry check of the drain callback
AlreadyDead(energy) == energy <= 0

\* a decay of two units per tick
DrainCallbackByTwo(m) ==
  LET energy == m.state.currentEnergy
      newEnergy == Max(0, energy - 2)
      m1 == [m EXCEPT !.state.currentEnergy = newEnergy]
  IN IF AlreadyDead(energy) THEN m
     ELSE IF newEnergy <= 0 THEN triggerGameOver(m1) ELSE m1

\* the callback of startDrain
DrainCallback(m) ==
  LET energy == m.state.currentEnergy
      newEnergy == Max(0, energy - 1)
      m1 == [m EXCEPT !.state.currentEnergy = newEnergy]
  IN IF AlreadyDead(energy) THEN m
     ELSE IF newEnergy <= 0 THEN triggerGameOver(m1) ELSE m1

startConditionTimer(m, onComplete) ==
  LET m1 == createTimer(m, "condition-countdown", DAYS_PER_CONDITION,
                        onComplete)
  IN [m1 EXCEPT !.conditionCountdown = m1.timerId]

\* a staircase without its floor
adjustDelayNoFloor(s, direction) ==
  [s EXCEPT !.currentDelayMs =
     IF direction = "increase" THEN @ + DELAY_STEP_MS ELSE @ - DELAY_STEP_MS]

\* a staircase with a ceiling at the initial delay
adjustDelayWithCeiling(s, direction) ==
  [s EXCEPT !.currentDelayMs =
     IF direction = "increase" THEN Min(INITIAL_DELAY_MS, @ + DELAY_STEP_MS)
     ELSE Max(MIN_DELAY_MS, @ - DELAY_STEP_MS)]

\* adjustDelay
adjustDelay(s, direction) ==
  [s EXCEPT !.currentDelayMs =
     IF direction = "increase" THEN @ + DELAY_STEP_MS
     ELSE Max(MIN_DELAY_MS, @ - DELAY_STEP_MS)]

\* a reset that leaves the death of the previous segment in place
resetKeepsDeath(m) ==
  LET m1 == stopAllTimers(m)
  IN [m1 EXCEPT !.drainTimer = 0, !.conditionCountdown = 0,
                !.activeDelay = 0, !.delayCountdownTimer = 0,
                !.state.currentEnergy = STARTING_ENERGY,
                !.state.currentDelayMs = INITIAL_DELAY_MS,
                !.state.trialNumber = 0,
                !.state.isAnimating = FALSE,
                !.state.isWaitingDelay = FALSE,
                !.state.conditionElapsedMs = 0,
                !.state.daysLeft = DAYS_PER_CONDITION,
                !.gameOverRuns = 0,
                !.resets = @ + 1]

resetForNewPhase(m) ==
  LET m1 == stopAllTimers(m)
  IN [m1 EXCEPT !.drainTimer = 0, !.conditionCountdown = 0,
                !.activeDelay = 0, !.delayCountdownTimer = 0,
                !.state.currentEnergy = STARTING_ENERGY,
                !.state.currentDelayMs = INITIAL_DELAY_MS,
                !.state.trialNumber = 0,
                !.state.isAnimating = FALSE,
                !.state.isWaitingDelay = FALSE,
                !.state.isDead = FALSE,
                !.state.choicesDisabled = FALSE,
                !.state.conditionElapsedMs = 0,
                !.state.daysLeft = DAYS_PER_CONDITION,
                !.gameOverRuns = 0,
                !.resets = @ + 1]

\* a guard that only looks at the dead flag
RejectedOnlyWhenDead(s) == s.isDead

\* the guard of handleFishChoice and handleLLChoice
ChoiceRejected(s) ==
  s.choicesDisabled \/ s.isDead \/ s.isAnimating \/ s.isWaitingDelay

NewProc(kind, phase, delayMs) ==
  [kind |-> kind, pc |-> "start", phase |-> phase, delayMs |-> delayMs,
   el |-> "", born |-> 0, ticked |-> {}, died |-> FALSE]

\* handleFishChoice up to its await
handleFishChoice(m) ==
  IF ChoiceRejected(m.state) THEN m
  ELSE
    LET tid == m.accepted + 1
        phase == m.state.phase
        m1 == [m EXCEPT !.accepted = tid,
                        !.state.trialNumber = @ + 1,
                        !.state.isAnimating = TRUE,
                        !.state.choicesDisabled = TRUE,
                        !.procs = @ @@ (tid :> NewProc("SS", phase, 0))]
    IN playEatingAnimation(m1, tid, Prefix(phase))

\* handleLLChoice up to its first await
handleLLChoice(m) ==
  IF ChoiceRejected(m.state) THEN m
  ELSE
    LET tid == m.accepted + 1
        phase == m.state.phase
        delayMs == m.state.currentDelayMs
        m1 == [m EXCEPT !.accepted = tid,
                        !.state.trialNumber = @ + 1,
                        !.state.isWaitingDelay = TRUE,
                        !.state.choicesDisabled = TRUE,
                        !.procs = @ @@ (tid :> [NewProc("LL", phase, delayMs)
                                                 EXCEPT !.pc = "delay"])]
        m2 == createTimer(m1, "delay-visual", 0, "")
        m3 == [m2 EXCEPT !.delayCountdownTimer = m2.timerId]
        m4 == createDelay(m3, tid)
    IN [m4 EXCEPT !.activeDelay = m4.timerId]

\* a handler that does not re-check the dead flag after its await
NeverDied(s) == FALSE

\* "Check if died during animation"
DiedDuringAnimation(s) == s.isDead

\* a bail-out that ignores how the delay ended
DelayAbortedOnlyIfDead(completed, s) == s.isDead

\* "If cancelled (game-over during delay), bail out"
DelayAborted(completed, s) == ~completed \/ s.isDead

\* a reward without the energy ceiling
Unclamped(energy) == energy

\* Math.min(CONFIG.MAX_ENERGY, ...) of the "Award points" blocks
ClampEnergy(energy) == Min(MAX_ENERGY, energy)

\* an award that adds to totalEnergyGained only what the energy rose by
AwardPointsClampedGain(m, tid, choice, reward, direction, delayAtChoice) ==
  LET newEnergy == ClampEnergy(m.state.currentEnergy + reward)
      m1 == [m EXCEPT !.state.currentEnergy = newEnergy,
                      !.state.totalEnergyGained =
                          @ + (newEnergy - m.state.currentEnergy),
                      !.state.isAnimating = FALSE,
                      !.state.choicesDisabled = FALSE,
                      !.rewardGrants = @ + 1]
      m2 == [m1 EXCEPT !.state = adjustDelay(@, direction)]
      m3 == recordTrial(m2, tid, choice, delayAtChoice, reward)
  IN IF m.procs[tid].phase # "exposure" THEN m3
     ELSE IF choice = "smaller-sooner"
     THEN [m3 EXCEPT !.state.exposureFishCount = @ + 1]
     ELSE [m3 EXCEPT !.state.exposureLLCount = @ + 1]

\* the "Award points" block and what follows it, for both handlers
AwardPoints(m, tid, choice, reward, direction, delayAtChoice) ==
  LET newEnergy == ClampEnergy(m.state.currentEnergy + reward)
      m1 == [m EXCEPT !.state.currentEnergy = newEnergy,
                      !.state.totalEnergyGained = @ + reward,
                      !.state.isAnimating = FALSE,
                      !.state.choicesDisabled = FALSE,
                      !.rewardGrants = @ + 1]
      m2 == [m1 EXCEPT !.state = adjustDelay(@, direction)]
      m3 == recordTrial(m2, tid, choice, delayAtChoice, reward)
  IN IF m.procs[tid].phase # "exposure" THEN m3
     ELSE IF choice = "smaller-sooner"
     THEN [m3 EXCEPT !.state.exposureFishCount = @ + 1]
     ELSE [m3 EXCEPT !.state.exposureLLCount = @ + 1]

\* the handler returns
Finish(m, tid) == [m EXCEPT !.procs = Without(@, tid)]

\* handleFishChoice after its await, granting whatever happened meanwhile
FishAfterAnimationUnchecked(m, tid) ==
  Finish(AwardPoints(m, tid, "smaller-sooner", SMALLER_SOONER_REWARD,
                     "increase", m.state.currentDelayMs), tid)

\* handleFishChoice after its await
FishAfterAnimation(m, tid) ==
  IF DiedDuringAnimation(m.state)
  THEN Finish([m EXCEPT !.state.isAnimating = FALSE], tid)
  ELSE Finish(AwardPoints(m, tid, "smaller-sooner", SMALLER_SOONER_REWARD,
                          "increase", m.state.currentDelayMs), tid)

\* handleLLChoice between its two awaits
LLAfterDelay(m, tid, completed) ==
  LET p == m.procs[tid]
      m1 == [m EXCEPT !.activeDelay = 0]
      m2 == IF m1.delayCountdownTimer = 0 THEN m1
            ELSE [Stop(m1, m1.delayCountdownTimer)
                    EXCEPT !.delayCountdownTimer = 0]
  IN IF DelayAborted(completed, m2.state)
     THEN Finish([m2 EXCEPT !.state.isWaitingDelay = FALSE,
                            !.state.isAnimating = FALSE], tid)
     ELSE playEatingAnimation(
            [m2 EXCEPT !.state.isWaitingDelay = FALSE,
                       !.state.isAnimating = TRUE], tid, Prefix(p.phase))

\* handleLLChoice after its second await
LLAfterAnimation(m, tid) ==
  LET p == m.procs[tid]
      reward == IF p.phase = "exposure" THEN EXPOSURE_REWARD
                ELSE m.state.rewardAmount
  IN IF DiedDuringAnimation(m.state)
     THEN Finish([m EXCEPT !.state.isAnimating = FALSE], tid)
     ELSE Finish(AwardPoints(m, tid, "larger-later", reward, "decrease",
                             p.delayMs), tid)

\* one promise continuation
Continue(m, e) ==
  LET p == m.procs[e.tid]
  IN IF p.pc = "delay" THEN LLAfterDelay(m, e.tid, e.completed)
     ELSE IF p.kind = "SS" THEN FishAfterAnimation(m, e.tid)
     ELSE LLAfterAnimation(m, e.tid)

\* the microtask queue, drained after the macrotask's synchronous code
RECURSIVE RunMicrotasks(_)
RunMicrotasks(m) ==
  IF m.ready = <<>> THEN m
  ELSE RunMicrotasks(Continue([m EXCEPT !.ready = Tail(@)], Head(m.ready)))

(***************************************************************************)
(* screens.js.  recordConditionSummary only appends to a log nothing here  *)
(* reads and is left out.                                                  *)
(***************************************************************************)
\* ui.js updateExposureStatus: dom.btnReady.disabled.  It runs after every
\* write of the two counts, so the flag is a function of them.
ReadyDisabled(s) ==
  ~(s.exposureFishCount >= EXPOSURE_MIN_FISH
      /\ s.exposureLLCount >= EXPOSURE_MIN_LL)

endGame(m) == stopAllTimers([m EXCEPT !.state.phase = "end"])

nextCondition(m) ==
  LET idx == m.state.conditionIndex + 1
  IN IF idx >= NUM_CONDITIONS THEN endGame(m)
     ELSE [m EXCEPT !.state.conditionIndex = idx,
                    !.state.phase = "transition"]

startConditionSequence(m) ==
  nextCondition([m EXCEPT !.state.conditionIndex = -1])

\* the onComplete closures handed to startConditionTimer
OnComplete(m, kind) ==
  IF kind = "exposure" THEN startConditionSequence(stopAllTimers(m))
  ELSE nextCondition(stopAllTimers(m))

\* the click on btn-start: assignGroup, startExposure
startExposure(m, group) ==
  LET m1 == [m EXCEPT !.state.rewardAmount = GROUPS[group],
                      !.state.phase = "exposure",
                      !.state.exposureFishCount = 0,
                      !.state.exposureLLCount = 0]
  IN startConditionTimer(startDrain(resetForNewPhase(m1)), "exposure")

\* the click on btn-continue.  With no CONDITIONS entry for the condition,
\* cond is undefined and the handler ends in the TypeError of
\* cond.drainIntervalMs, after the reset and before the timers are made.
startCondition(m) ==
  LET m1 == [m EXCEPT !.state.phase = "condition"]
      m2 == resetForNewPhase(m1)
  IN IF ~config.defined THEN m2
     ELSE startConditionTimer(startDrain(m2), "condition")

(***************************************************************************)
(* engine.js: the callback of startConditionTimer.  threw: the callback    *)
(* ended in the TypeError of conditionCountdown.stop() on null.            *)
(***************************************************************************)
CountdownCallback(m, id) ==
  LET duration == CONDITION_DURATION_MS
      elapsed == m.state.conditionElapsedMs + COUNTDOWN_INTERVAL_MS
      remaining == Max(0, duration - elapsed)
      daysLeft == Min(DAYS_PER_CONDITION,
                      CeilDiv(remaining * DAYS_PER_CONDITION, duration))
      m1 == [m EXCEPT !.state.conditionElapsedMs = elapsed]
      m2 == IF daysLeft = m1.timers[id].lastDay THEN m1
            ELSE [m1 EXCEPT !.timers[id].lastDay = daysLeft,
                            !.state.daysLeft = daysLeft]
  IN IF remaining > 0 THEN [m |-> m2, threw |-> FALSE]
     ELSE IF m2.conditionCountdown = 0 THEN [m |-> m2, threw |-> TRUE]
     ELSE [m |-> OnComplete([Stop(m2, m2.conditionCountdown)
                               EXCEPT !.conditionCountdown = 0],
                            m2.timers[id].onComplete),
           threw |-> FALSE]

\* createTimer's tick(): the callback, then the next setTimeout; an
\* exception in the callback leaves tick before it re-arms
Tick(m, id, r) ==
  IF r.threw THEN [r.m EXCEPT !.timers[id].armed = FALSE]
  ELSE Rearm(r.m, id)

(***************************************************************************)
(* Real time.  An animation timeout is due 1000 ms after it was set        *)
(* (SMALLER_SOONER_DELAY_MS = EATING_ANIMATION_MS = 1000), and the fires   *)
(* of one segment countdown are due 1000 ms apart.  Timeouts run in the    *)
(* order they are due, so while an animation timeout is pending a given    *)
(* countdown fires at most once, and a countdown created after the         *)
(* animation began (id > born) does not fire at all.                       *)
(***************************************************************************)
CountdownMayFire(m, id) ==
  \A k \in DOMAIN m.procs :
     m.procs[k].pc = "anim" => (id <= m.procs[k].born /\ id \notin m.procs[k].ticked)

NoteTick(m, id) ==
  [m EXCEPT !.procs = [k \in DOMAIN @ |->
     IF @[k].pc = "anim" THEN [@[k] EXCEPT !.ticked = @ \cup {id}] ELSE @[k]]]

(***************************************************************************)
(* A client of timer.js under a clock: performance.now() and the due times *)
(* of the pending timeouts.  sched holds, per closure, the timing          *)
(* variables of createTimer / createDelay (expected, remainingMs,          *)
(* startTime) and due, the time at which its pending timeout is due.       *)
(* History: frozen and pausedAt (what remained of the pending timeout when *)
(* pause() ran, and when it ran), elapsed (createCountdown's closure       *)
(* variable), onTicks and onCompletes (calls of createCountdown's two      *)
(* callbacks), settled (the values the delay's promise settled with),      *)
(* first (which of expiry and cancel() came first for the delay).          *)
(***************************************************************************)
ClockStepMs == COUNTDOWN_INTERVAL_MS \div StepsPerInterval
MaxClockMs == MaxClockSteps * ClockStepMs
BenchCountdownMs == BenchCountdownTicks * COUNTDOWN_INTERVAL_MS
BenchDelayMs == MIN_DELAY_MS

benchInit ==
  [now |-> 0, sched |-> << >>, elapsed |-> 0, onTicks |-> 0,
   onCompletes |-> 0, settled |-> << >>, first |-> "none"]

Assign(m, isChoice) ==
     /\ state' = m.state
     /\ timers' = m.timers
     /\ activeTimers' = m.activeTimers
     /\ timerId' = m.timerId
     /\ drainTimer' = m.drainTimer
     /\ conditionCountdown' = m.conditionCountdown
     /\ activeDelay' = m.activeDelay
     /\ delayCountdownTimer' = m.delayCountdownTimer
     /\ procs' = m.procs
     /\ animCleanup' = m.animCleanup
     /\ trials' = m.trials
     /\ accepted' = m.accepted
     /\ rewardGrants' = m.rewardGrants
     /\ gameOverRuns' = m.gameOverRuns
     /\ resets' = m.resets
     /\ choiceEvent' = isChoice

Commit(m0, isChoice) ==
  /\ Assign(Collect(RunMicrotasks(m0)), isChoice)
  /\ bench' = bench
  /\ config' = config

InitState ==
  /\ state = initialState
  /\ timers = << >>
  /\ activeTimers = {}
  /\ timerId = 0
  /\ drainTimer = 0
  /\ conditionCountdown = 0
  /\ activeDelay = 0
  /\ delayCountdownTimer = 0
  /\ procs = << >>
  /\ animCleanup = [el \in {"exposure", "condition"} |-> 0]
  /\ trials = << >>
  /\ accepted = 0
  /\ rewardGrants = 0
  /\ gameOverRuns = 0
  /\ resets = 0
  /\ choiceEvent = FALSE

InitEngine == InitState /\ bench = benchInit

\* config.js as it is
Init == InitEngine /\ config = frozenConfig

\* a screen with choice buttons is shown and the tab is in front
ChoiceScreen == state.phase \in {"exposure", "condition"} /\ ~state.tabHidden

StartClick ==
  /\ state.phase = "intro" /\ ~state.tabHidden
  /\ \E g \in DOMAIN GROUPS : Commit(startExposure(Cur, g), FALSE)

\* the click on btn-ready; the button is on the exposure screen
ReadyClick ==
  /\ state.phase = "exposure" /\ ~state.tabHidden
  /\ ~ReadyDisabled(state)
  /\ Commit(OnComplete(Cur, "exposure"), FALSE)

ContinueClick ==
  /\ state.phase = "transition" /\ ~state.tabHidden
  /\ resets < MaxResets
  /\ Commit(startCondition(Cur), FALSE)

\* a click on the fish button; at most cap choices are accepted per session
FishClick(cap) ==
  /\ ChoiceScreen
  /\ ChoiceRejected(state) \/ accepted < cap
  /\ Commit(handleFishChoice(Cur), TRUE)

\* a click on the larger-later button
LLClick(cap) ==
  /\ ChoiceScreen
  /\ ChoiceRejected(state) \/ accepted < cap
  /\ Commit(handleLLChoice(Cur), TRUE)

FishChoice == FishClick(MaxTrials)

LLChoice == LLClick(MaxTrials)

\* visibilitychange, document.hidden
Hide ==
  /\ ~state.tabHidden
  /\ Commit(pauseAllTimers([Cur EXCEPT !.state.tabHidden = TRUE]), FALSE)

\* visibilitychange, not hidden
Show ==
  /\ state.tabHidden
  /\ Commit(resumeAllTimers([Cur EXCEPT !.state.tabHidden = FALSE]), FALSE)

Armed(kind) == {id \in DOMAIN timers : timers[id].kind = kind /\ timers[id].armed}

DrainTick ==
  \E id \in Armed("drain") :
     Commit(Tick(Cur, id, [m |-> DrainCallback(Cur), threw |-> FALSE]), FALSE)

CountdownTick ==
  \E id \in Armed("condition-countdown") :
     /\ CountdownMayFire(Cur, id)
     /\ Commit(Tick(Cur, id, CountdownCallback(NoteTick(Cur, id), id)),
               FALSE)

\* the cosmetic countdown of a delayed wait; its callback only redraws
VisualTick ==
  \E id \in Armed("delay-visual") :
     Commit(Tick(Cur, id, [m |-> Cur, threw |-> FALSE]), FALSE)

DelayFire ==
  \E id \in Armed("delay") : Commit(CompleteDelay(Cur, id), FALSE)

AnimationFire ==
  \E tid \in DOMAIN procs :
     /\ procs[tid].pc = "anim"
     /\ Commit(AnimationTimeout(Cur, tid), FALSE)

\* btn-ready stays disabled here: it needs EXPOSURE_MIN_FISH +
\* EXPOSURE_MIN_LL granted choices, more than MaxTrials
Next ==
  \/ StartClick
  \/ ContinueClick
  \/ FishChoice
  \/ LLChoice
  \/ Hide
  \/ Show
  \/ DrainTick
  \/ CountdownTick
  \/ VisualTick
  \/ DelayFire
  \/ AnimationFire

Spec == Init /\ [][Next]_vars

(***************************************************************************)
(* The first segment alone, with more choices: the tab stays in front and  *)
(* the segment countdown has not fired yet.                                *)
(***************************************************************************)
DeepFishChoice == FishClick(MaxDeepTrials)

DeepLLChoice == LLClick(MaxDeepTrials)

NextDeep ==
  \/ StartClick
  \/ ReadyClick
  \/ DeepFishChoice
  \/ DeepLLChoice
  \/ DrainTick
  \/ VisualTick
  \/ DelayFire
  \/ AnimationFire

SpecDeep == Init /\ [][NextDeep]_vars

(***************************************************************************)
(* timer.js alone, under the clock: one countdown made by createCountdown  *)
(* and one delay made by createDelay, with a client that may call stop(),  *)
(* cancel(), pauseAllTimers, resumeAllTimers and stopAllTimers at any      *)
(* time.  A pending timeout runs at the first clock step at or after its   *)
(* due time, or one step late.  Closures are kept after they are dead, so  *)
(* that the client can still call them.                                    *)
(***************************************************************************)
\* the timing variables of a new closure
NewSched(kind, now, ms) ==
  [expected |-> IF kind = "delay" THEN 0 ELSE now + ms,
   remainingMs |-> IF kind = "delay" THEN ms ELSE 0,
   startTime |-> IF kind = "delay" THEN now ELSE 0,
   due |-> now + ms, frozen |-> 0, pausedAt |-> 0]

\* a pause() that keeps the remainingMs it had
PauseRemainingStale(kind, s, now) == s.remainingMs

\* pause(): remainingMs
PauseRemaining(kind, s, now) ==
  IF kind = "delay" THEN Max(0, s.remainingMs - (now - s.startTime))
  ELSE Max(0, s.expected - now)

\* pause() of every registered closure that is not paused
PauseTiming(m, b) ==
  [b EXCEPT !.sched = [id \in DOMAIN @ |->
     IF id \in m.activeTimers /\ ~m.timers[id].paused
     THEN [b.sched[id] EXCEPT
             !.remainingMs =
                PauseRemaining(m.timers[id].kind, b.sched[id], b.now),
             !.frozen = Max(0, b.sched[id].due - b.now),
             !.pausedAt = b.now]
     ELSE @[id]]]

\* resume() of every registered closure that is paused
ResumeTiming(m, b) ==
  [b EXCEPT !.sched = [id \in DOMAIN @ |->
     IF id \in m.activeTimers /\ m.timers[id].paused
     THEN IF m.timers[id].kind = "delay"
          THEN [b.sched[id] EXCEPT
                  !.startTime = b.now,
                  !.due = b.now + b.sched[id].remainingMs]
          ELSE [b.sched[id] EXCEPT
                  !.expected = b.now + b.sched[id].remainingMs,
                  !.due = b.now + b.sched[id].remainingMs]
     ELSE @[id]]]

\* a drift correction that subtracts the whole drift
NextExpectedUnclamped(now, drift, intervalMs) == now + intervalMs - drift

\* tick(): expected = now + intervalMs - Math.min(drift, intervalMs - 1)
NextExpected(now, drift, intervalMs) ==
  now + intervalMs - Min(drift, intervalMs - 1)

\* tick(): the delay of the next setTimeout, read at a later instant
NextDelay(expected, now) == Max(0, expected - now)

\* tick(): drift, expected and the delay of the next setTimeout
TickTiming(s, now) ==
  LET drift == now - s.expected
      expected == NextExpected(now, drift, COUNTDOWN_INTERVAL_MS)
  IN [s EXCEPT !.expected = expected, !.due = now + NextDelay(expected, now)]

\* the callback createCountdown hands to createTimer
createCountdownCallback(m, b, id) ==
  LET elapsed == b.elapsed + COUNTDOWN_INTERVAL_MS
      remainingMs == Max(0, BenchCountdownMs - elapsed)
  IN [m |-> IF remainingMs <= 0 THEN StopTimer(m, id) ELSE m,
      b |-> [b EXCEPT !.elapsed = elapsed,
                      !.onTicks = @ + 1,
                      !.onCompletes = IF remainingMs <= 0 THEN @ + 1 ELSE @]]

\* the promise of the delay settles: its client sees the value.  The
\* timing variables of a closure that is neither armed nor registered are
\* never read again and are forgotten.
BenchCommit(m, b) ==
  /\ Assign([m EXCEPT !.ready = << >>], FALSE)
  /\ config' = config
  /\ bench' = [b EXCEPT
       !.settled = @ \o [i \in 1..Len(m.ready) |-> m.ready[i].completed],
       !.sched = [id \in DOMAIN @ |->
                    IF m.timers[id].armed \/ id \in m.activeTimers
                    THEN @[id] ELSE NewSched("", 0, 0)]]

OfKind(kind) == {id \in DOMAIN timers : timers[id].kind = kind}

Due(kind) == {id \in Armed(kind) : bench.sched[id].due <= bench.now}

BenchCreateCountdown ==
  /\ OfKind("countdown") = {}
  /\ LET m == createTimer(Cur, "countdown", 0, "")
     IN BenchCommit(m, [bench EXCEPT !.sched = @ @@ (m.timerId :>
            NewSched("countdown", bench.now, COUNTDOWN_INTERVAL_MS))])

BenchCreateDelay ==
  /\ OfKind("delay") = {}
  /\ LET m == createDelay(Cur, 0)
     IN BenchCommit(m, [bench EXCEPT !.sched = @ @@ (m.timerId :>
            NewSched("delay", bench.now, BenchDelayMs))])

\* time passes
BenchAdvance ==
  /\ bench.now + ClockStepMs <= MaxClockMs
  /\ \A id \in DOMAIN timers :
        timers[id].armed => bench.now <= bench.sched[id].due
  /\ bench' = [bench EXCEPT !.now = @ + ClockStepMs]
  /\ UNCHANGED <<state, timers, activeTimers, timerId, drainTimer,
                 conditionCountdown, activeDelay, delayCountdownTimer, procs,
                 animCleanup, trials, accepted, rewardGrants, gameOverRuns,
                 resets, choiceEvent, config>>

\* the pending timeout of the countdown runs tick()
BenchCountdownFire ==
  \E id \in Due("countdown") :
     LET r == createCountdownCallback(Cur, bench, id)
     IN BenchCommit(Tick(Cur, id, [m |-> r.m, threw |-> FALSE]),
                    [r.b EXCEPT !.sched[id] = TickTiming(@, bench.now)])

\* the pending timeout of the delay runs
BenchDelayFire ==
  \E id \in Due("delay") :
     BenchCommit(CompleteDelay(Cur, id),
                 [bench EXCEPT !.first = IF @ = "none" THEN "expiry" ELSE @])

\* the client calls stop() on the countdown
BenchStop ==
  \E id \in OfKind("countdown") : BenchCommit(StopTimer(Cur, id), bench)

\* the client calls cancel() on the delay
BenchCancel ==
  \E id \in OfKind("delay") :
     BenchCommit(CancelDelay(Cur, id),
                 [bench EXCEPT !.first = IF @ = "none" THEN "cancel" ELSE @])

BenchPauseAll ==
  \E m \in {pauseAllTimers(Cur)} : BenchCommit(m, PauseTiming(Cur, bench))

BenchResumeAll ==
  \E m \in {resumeAllTimers(Cur)} : BenchCommit(m, ResumeTiming(Cur, bench))

BenchStopAll ==
  \E m \in {stopAllTimers(Cur)} :
     BenchCommit(m, [bench EXCEPT !.first =
                       IF @ = "none" /\ OfKind("delay") \cap activeTimers # {}
                       THEN "cancel" ELSE @])

NextTimer ==
  \/ BenchCreateCountdown
  \/ BenchCreateDelay
  \/ BenchAdvance
  \/ BenchCountdownFire
  \/ BenchDelayFire
  \/ BenchStop
  \/ BenchCancel
  \/ BenchPauseAll
  \/ BenchResumeAll
  \/ BenchStopAll

SpecTimer == Init /\ [][NextTimer]_vars

(***************************************************************************)
(* Properties.                                                             *)
(***************************************************************************)
Busy ==
  state.choicesDisabled \/ state.isDead \/ state.isAnimating
    \/ state.isWaitingDelay

RecordsOf(log, tid) == {i \in 1..Len(log) : log[i].tid = tid}

ArmedDrainExists ==
  \E id \in DOMAIN timers : timers[id].kind = "drain" /\ timers[id].armed

\* C1: exactly-once reward accounting.  The trial log has one record per run
\* of the award block; every record is for an accepted choice whose handler
\* has returned, and no accepted choice has two records.
C1_ExactlyOnceReward ==
  /\ Len(trials) = rewardGrants
  /\ \A i \in 1..Len(trials) :
       /\ trials[i].tid \in 1..accepted
       /\ trials[i].tid \notin DOMAIN procs
       /\ RecordsOf(trials, trials[i].tid) = {i}

\* one choice was rewarded and recorded, a second one was accepted and
\* ended in the first segment's death without a record
C1_Witness ==
  /\ accepted = 2 /\ rewardGrants = 1 /\ Len(trials) = 1
  /\ procs = << >> /\ state.isDead /\ resets = 1

\* C2: a trial aborted by death leaves no trace.  For a choice in flight for
\* which game-over has been triggered since it was accepted (before this
\* step, or in it): the step adds no record for it, and if its handler
\* returns in this step then no reward is granted, totalEnergyGained and
\* currentDelayMs keep their values and currentEnergy is not raised.
C2_DeathAbortsTrial ==
  [][\A tid \in DOMAIN procs :
       (procs[tid].died \/ (~state.isDead /\ state'.isDead))
         => /\ RecordsOf(trials', tid) = {}
            /\ tid \notin DOMAIN procs'
                 => /\ rewardGrants' = rewardGrants
                    /\ state'.totalEnergyGained = state.totalEnergyGained
                    /\ state'.currentDelayMs = state.currentDelayMs
                    /\ state'.currentEnergy <= state.currentEnergy]_vars

\* the only accepted choice of the first segment ended, in death, with
\* nothing granted or recorded and the staircase where it started
C2_Witness ==
  /\ accepted = 1 /\ resets = 1 /\ state.isDead /\ procs = << >>
  /\ trials = << >> /\ rewardGrants = 0
  /\ state.totalEnergyGained = 0 /\ state.currentDelayMs = INITIAL_DELAY_MS

\* C3: 0 <= currentEnergy <= 100 in every reachable state.
C3_EnergyInRange ==
  state.currentEnergy >= 0 /\ state.currentEnergy <= MAX_ENERGY

\* a reward was cut at the ceiling: more was gained than fits above the
\* starting energy
C3_Witness ==
  /\ state.currentEnergy = MAX_ENERGY
  /\ state.totalEnergyGained > MAX_ENERGY - STARTING_ENERGY

\* C4: MIN_DELAY_MS <= currentDelayMs after every update of currentDelayMs.
C4_DelayAtLeastMin == state.currentDelayMs >= MIN_DELAY_MS

\* a delayed choice made at the floor was rewarded and the staircase stayed
\* at the floor
C4_Witness ==
  /\ trials # << >>
  /\ trials[Len(trials)].choice = "larger-later"
  /\ trials[Len(trials)].delayAtChoice = MIN_DELAY_MS
  /\ state.currentDelayMs = MIN_DELAY_MS

\* C5: a choice event that arrives while choicesDisabled, isDead, isAnimating
\* or isWaitingDelay is set changes nothing: no store field, no timer or
\* delay, no suspended handler, no trial record.
C5_BusyChoiceIsNoOp ==
  [][(choiceEvent' /\ Busy)
       => UNCHANGED <<state, timers, activeTimers, timerId, drainTimer,
                      conditionCountdown, activeDelay, delayCountdownTimer,
                      procs, animCleanup, trials, accepted, rewardGrants>>]_vars

\* a choice button was clicked in a dead segment
C5_Witness ==
  choiceEvent /\ state.isDead /\ state.phase \in {"exposure", "condition"}

\* C6: at most one trial procedure is in flight, and isAnimating and
\* isWaitingDelay are never both set.
C6_OneTrialInFlight ==
  /\ Cardinality(DOMAIN procs) <= 1
  /\ ~(state.isAnimating /\ state.isWaitingDelay)

\* C7: choicesDisabled is set exactly when the engine is not idle or the
\* segment is dead.
C7_ChoicesDisabledIff ==
  state.choicesDisabled
    <=> (state.isAnimating \/ state.isWaitingDelay \/ state.isDead)

\* C8: from death until the next resetForNewPhase, currentEnergy stays 0 and
\* isDead stays set, whatever step is taken.
C8_DeadUntilReset ==
  [][(state.isDead /\ resets' = resets)
       => /\ state.currentEnergy = 0
          /\ state'.isDead
          /\ state'.currentEnergy = 0]_vars

\* the segment is dead, a drain timeout is still pending, and a choice
\* button has just been clicked
C8_Witness == state.isDead /\ ArmedDrainExists /\ choiceEvent

\* C9: triggerGameOver runs at most once between two runs of
\* resetForNewPhase, and it runs in the step that takes currentEnergy from
\* 1 to 0.
C9_GameOverOnce ==
  [][(gameOverRuns' # gameOverRuns /\ resets' = resets)
       => /\ gameOverRuns = 0 /\ gameOverRuns' = 1
          /\ state.currentEnergy = 1 /\ state'.currentEnergy = 0]_vars

\* game-over has run once and a drain timeout is pending in the dead segment
C9_Witness == gameOverRuns = 1 /\ state.isDead /\ ArmedDrainExists

\* C10: a repeating timer on which stop() was called has no fire armed.
C10_StoppedTimerNotArmed ==
  \A id \in DOMAIN timers :
     (timers[id].kind # "delay" /\ timers[id].stopped) => ~timers[id].armed

\* C11: within a segment conditionElapsedMs is advanced only by ticks that
\* come before expiry, one interval at a time, and the tick that brings it
\* to CONDITION_DURATION_MS runs onComplete (the segment screen is left); no
\* tick of the countdown runs after that.
C11_CountdownEndsAtExpiry ==
  [][(state'.conditionElapsedMs # state.conditionElapsedMs
        /\ resets' = resets)
       => /\ state.conditionElapsedMs < CONDITION_DURATION_MS
          /\ state'.conditionElapsedMs
               = state.conditionElapsedMs + COUNTDOWN_INTERVAL_MS
          /\ (state'.conditionElapsedMs = CONDITION_DURATION_MS
                => state'.phase \in {"transition", "end"})]_vars

\* C12: the countdown made by createCountdown calls onComplete at most once,
\* in the tick that brings its elapsed time to the duration, and once
\* onComplete has been called neither onTick nor onComplete is called again.
C12_CountdownCompletesOnce ==
  [][/\ bench'.onCompletes <= 1
     /\ bench'.onCompletes # bench.onCompletes
          => bench'.elapsed = BenchCountdownMs
     /\ bench.onCompletes >= 1
          => /\ bench'.onTicks = bench.onTicks
             /\ bench'.onCompletes = bench.onCompletes]_vars

\* C13: the promise of a delay settles at most once: with TRUE if its
\* timeout ran before any cancel(), which takes at least the duration, with
\* FALSE if cancel() came first, and not at all before either; from then on
\* the delay is out of the registry and later calls change neither.
C13_DelayResolvesOnce ==
  /\ Len(bench.settled) <= 1
  /\ OfKind("delay") = {} => bench.first = "none"
  /\ bench.first = "none" =>
       /\ bench.settled = << >>
       /\ OfKind("delay") \subseteq activeTimers
  /\ bench.first = "expiry" =>
       /\ bench.settled = <<TRUE>>
       /\ bench.now >= BenchDelayMs
       /\ OfKind("delay") \cap activeTimers = {}
  /\ bench.first = "cancel" =>
       /\ bench.settled = <<FALSE>>
       /\ OfKind("delay") \cap activeTimers = {}

\* the delay completed naturally, later than its duration after it was
\* made (it was paused meanwhile, or its timeout ran late), and cancel() was
\* called on it afterwards
C13_Witness ==
  /\ bench.first = "expiry"
  /\ bench.settled = <<TRUE>>
  /\ bench.now > BenchDelayMs
  /\ \E id \in OfKind("delay") : timers[id].stopped

\* C14: a paused timer or delay has no timeout pending, and the resume()
\* that ends the pause arms a timeout that is due exactly as far ahead as
\* the pending one was when pause() ran, however long the pause lasted.
C14_PauseFreezesRemaining ==
  [][\A id \in DOMAIN timers :
        /\ timers[id].paused => ~timers[id].armed
        /\ (timers[id].paused /\ ~timers'[id].paused)
             => /\ timers'[id].armed
                /\ bench'.sched[id].due - bench'.now = bench.sched[id].frozen]_vars

\* a delay has just been resumed with part of its duration left, after a
\* pause that lasted longer than what was left
C14_Witness ==
  \E id \in OfKind("delay") :
     /\ timers[id].armed /\ ~timers[id].paused
     /\ bench.sched[id].frozen > 0
     /\ bench.sched[id].frozen < BenchDelayMs
     /\ bench.sched[id].due - bench.now = bench.sched[id].frozen
     /\ bench.now - bench.sched[id].pausedAt > bench.sched[id].frozen

\* C15: every timer or delay with a timeout pending is in the registry, and
\* while the tab is hidden (after pauseAllTimers, before resumeAllTimers) no
\* timer or delay has a timeout pending.
C15_PauseFreezesEveryTimer ==
  /\ \A id \in DOMAIN timers : timers[id].armed => id \in activeTimers
  /\ state.tabHidden => \A id \in DOMAIN timers : ~timers[id].armed

\* where each suspended handler stands
TrialPositions(p) == [k \in DOMAIN p |-> p[k].pc]

\* C16: while the tab is hidden no trial advances: no suspended handler
\* moves or returns, no reward is granted, no record is written, and
\* currentEnergy and currentDelayMs stay as they are.
C16_HiddenTrialsDoNotAdvance ==
  [][(state.tabHidden /\ state'.tabHidden)
       => /\ TrialPositions(procs') = TrialPositions(procs)
          /\ rewardGrants' = rewardGrants
          /\ trials' = trials
          /\ state'.currentEnergy = state.currentEnergy
          /\ state'.currentDelayMs = state.currentDelayMs]_vars

\* C17: the registry holds only timers on which stop() / cancel() has not
\* been called and delays that have not completed; and a timer or delay
\* that is stopped, cancelled or completed is not acted on through the
\* registry: no step changes its paused flag or arms a timeout for it.
C17_RegistryHoldsLiveTimersOnly ==
  [][/\ \A id \in activeTimers' :
          /\ id \in DOMAIN timers'
          /\ ~timers'[id].stopped
          /\ ~timers'[id].resolved
     /\ \A id \in DOMAIN timers \cap DOMAIN timers' :
          (timers[id].stopped \/ timers[id].resolved)
            => /\ timers'[id].paused = timers[id].paused
               /\ timers'[id].armed => timers[id].armed]_vars

\* a countdown was stopped while it was paused and has stayed so, while
\* the delay next to it has been paused and resumed and is still registered
C17_Witness ==
  /\ \E id \in OfKind("countdown") :
        /\ timers[id].stopped /\ timers[id].paused /\ ~timers[id].armed
        /\ id \notin activeTimers
  /\ \E id \in OfKind("delay") :
        /\ id \in activeTimers
        /\ timers[id].armed /\ ~timers[id].paused
        /\ bench.sched[id].frozen > 0

\* C18: when resetForNewPhase has run, no timer or delay made before it has
\* a timeout pending: the only pending timeouts are those of the timers
\* started for the new segment.
C18_ResetStopsPreviousTimers ==
  [][resets' # resets
       => \A id \in DOMAIN timers' : timers'[id].armed => id > timerId]_vars

\* C19: the step in which resetForNewPhase runs ends with currentEnergy =
\* STARTING_ENERGY, currentDelayMs = INITIAL_DELAY_MS, trialNumber = 0,
\* conditionElapsedMs = 0, daysLeft = DAYS_PER_CONDITION and the four flags
\* cleared, whatever the state before it.
C19_ResetValues ==
  [][resets' # resets
       => /\ state'.currentEnergy = STARTING_ENERGY
          /\ state'.currentDelayMs = INITIAL_DELAY_MS
          /\ state'.trialNumber = 0
          /\ state'.conditionElapsedMs = 0
          /\ state'.daysLeft = DAYS_PER_CONDITION
          /\ ~state'.isAnimating
          /\ ~state'.isWaitingDelay
          /\ ~state'.isDead
          /\ ~state'.choicesDisabled]_vars

\* a segment has just been started after a segment that ended dead (its
\* drain timer was stopped inside its callback and still has a timeout
\* pending) and in which a trial had been granted
C19_Witness ==
  /\ resets = 2
  /\ state.phase = "condition"
  /\ state.currentEnergy = STARTING_ENERGY
  /\ state.trialNumber = 0
  /\ state.conditionElapsedMs = 0
  /\ ~state.isDead
  /\ Len(trials) > 0
  /\ \E id \in DOMAIN timers :
        timers[id].kind = "drain" /\ timers[id].stopped /\ timers[id].armed

\* C20: within a segment currentDelayMs changes only in a step that grants
\* a reward; a granted immediate choice adds DELAY_STEP_MS to it, without a
\* ceiling, and a granted delayed choice takes DELAY_STEP_MS off it but not
\* below MIN_DELAY_MS.
C20_StaircaseRule ==
  [][resets' = resets
       => /\ state'.currentDelayMs # state.currentDelayMs
               => rewardGrants' = rewardGrants + 1
          /\ rewardGrants' = rewardGrants + 1
               => /\ Len(trials') = Len(trials) + 1
                  /\ trials'[Len(trials')].choice = "smaller-sooner"
                       => state'.currentDelayMs
                            = state.currentDelayMs + DELAY_STEP_MS
                  /\ trials'[Len(trials')].choice = "larger-later"
                       => state'.currentDelayMs
                            = IF state.currentDelayMs - DELAY_STEP_MS
                                   >= MIN_DELAY_MS
                              THEN state.currentDelayMs - DELAY_STEP_MS
                              ELSE MIN_DELAY_MS]_vars

\* two immediate choices granted from the initial delay, one aborted choice,
\* and the delay two steps above the initial one
C20_Witness ==
  /\ Len(trials) = 2
  /\ accepted = 3
  /\ procs = << >>
  /\ trials[1].choice = "smaller-sooner"
  /\ trials[1].delayAtChoice = INITIAL_DELAY_MS
  /\ trials[2].choice = "smaller-sooner"
  /\ trials[2].delayAtChoice = INITIAL_DELAY_MS + DELAY_STEP_MS
  /\ state.currentDelayMs = INITIAL_DELAY_MS + 2 * DELAY_STEP_MS

\* what a client can observe of the closures: whether a timeout is pending
\* and whether the closure is paused
TimerStatus == [id \in DOMAIN timers |-> <<timers[id].armed, timers[id].paused>>]

\* C21: stop() on a timer already stopped, cancel() on a delay already
\* cancelled or completed, pauseAllTimers when every registered timer is
\* paused, and resumeAllTimers when none is, change nothing: not the pending
\* timeouts, not the paused flags, not the remaining-time snapshots, not the
\* registry, not the settled value.
C21_MisuseIsNoOp ==
  [][((\/ BenchStop /\ \A id \in OfKind("countdown") : timers[id].stopped
       \/ BenchCancel /\ \A id \in OfKind("delay") :
                            timers[id].stopped \/ timers[id].resolved
       \/ BenchPauseAll /\ \A id \in activeTimers : timers[id].paused
       \/ BenchResumeAll /\ \A id \in activeTimers : ~timers[id].paused))
       => /\ TimerStatus' = TimerStatus
          /\ activeTimers' = activeTimers
          /\ bench' = bench]_vars

(***************************************************************************)
(* The screens under other configurations: config.js with another drain   *)
(* interval, or with no CONDITIONS entry for the condition that is started. *)
(***************************************************************************)
DrainIntervals == {0 - 1000, 0, EXPOSURE_DRAIN_INTERVAL_MS}

ConfigChoices ==
  [exposureDrainIntervalMs : DrainIntervals, defined : {TRUE},
   drainIntervalMs : DrainIntervals]
  \cup [exposureDrainIntervalMs : DrainIntervals, defined : {FALSE},
        drainIntervalMs : {0}]

InitConfig == InitEngine /\ config \in ConfigChoices

NextConfig ==
  \/ StartClick
  \/ ContinueClick
  \/ DrainTick
  \/ CountdownTick

SpecConfig == InitConfig /\ [][NextConfig]_vars

\* the interval startDrain hands to createTimer in the running segment
SegmentDrainIntervalMs ==
  IF state.phase = "exposure" THEN config.exposureDrainIntervalMs
  ELSE config.drainIntervalMs

FaultySegment ==
  \/ state.phase = "exposure" /\ config.exposureDrainIntervalMs <= 0
  \/ state.phase = "condition"
       /\ (~config.defined \/ config.drainIntervalMs <= 0)

\* C22: a segment started with a missing segment definition or with a decay
\* interval <= 0 is refused: in such a segment no decay timer and no segment
\* countdown is armed, and currentEnergy keeps the value the reset gave it
\* (no decay tick changes it).
C22_FaultyConfigRefused ==
  FaultySegment =>
    /\ Armed("drain") = {}
    /\ Armed("condition-countdown") = {}
    /\ state.currentEnergy = STARTING_ENERGY

\* the reward configured for the trial tid that is being completed
RewardOf(tid) ==
  IF procs[tid].kind = "SS" THEN SMALLER_SOONER_REWARD
  ELSE IF procs[tid].phase = "exposure" THEN EXPOSURE_REWARD
  ELSE state.rewardAmount

\* a step of a segment (no reset) that changes currentEnergy
EnergyStep ==
  resets' = resets /\ state'.currentEnergy # state.currentEnergy

\* the step completes a trial: it emits the record of a suspended procedure
\* with that procedure's configured reward
CompletesTrial ==
  /\ Len(trials') = Len(trials) + 1
  /\ trials'[Len(trials')].tid \in DOMAIN procs
  /\ trials'[Len(trials')].pointsEarned = RewardOf(trials'[Len(trials')].tid)

\* C23 as stated: within a segment currentEnergy changes only by exactly -1
\* (a decay tick, no trial completed) or by exactly +the configured reward of
\* the trial being completed.
C23_StepIsDecayOrFullReward ==
  [][EnergyStep =>
       \/ /\ state'.currentEnergy = state.currentEnergy - 1
          /\ trials' = trials
       \/ /\ CompletesTrial
          /\ state'.currentEnergy
               = state.currentEnergy + trials'[Len(trials')].pointsEarned]_vars

\* C23, amended: within a segment currentEnergy changes only by exactly -1
\* (a decay tick, no trial completed) or, on the completion of a trial, to
\* min(MAX_ENERGY, currentEnergy + the configured reward of that trial): the
\* step is the reward, or what is left below the ceiling when that is less.
C23_StepIsDecayOrClampedReward ==
  [][EnergyStep =>
       \/ /\ state'.currentEnergy = state.currentEnergy - 1
          /\ trials' = trials
       \/ /\ CompletesTrial
          /\ state'.currentEnergy
               = Min(MAX_ENERGY, state.currentEnergy
                                   + trials'[Len(trials')].pointsEarned)]_vars

\* six delayed rewards of EXPOSURE_REWARD were granted in one segment that
\* started at STARTING_ENERGY, and the energy stands at the ceiling: the
\* energy rose by less than the rewards granted
C23_Witness ==
  /\ Len(trials) = 6 /\ state.exposureLLCount = 6
  /\ trials[6].pointsEarned = EXPOSURE_REWARD
  /\ state.totalEnergyGained = 6 * EXPOSURE_REWARD
  /\ state.currentEnergy = MAX_ENERGY

\* the step is the natural end of the delay that trial tid waits for: the
\* setTimeout callback of its createDelay ran
DelayCompletesNaturally(tid) ==
  \E id \in Armed("delay") :
     timers[id].tid = tid /\ Commit(CompleteDelay(Cur, id), FALSE)

\* the step is the end of the consumption animation of trial tid
AnimationCompletes(tid) ==
  /\ procs[tid].pc = "anim"
  /\ Commit(AnimationTimeout(Cur, tid), FALSE)

\* C24: ordering of a delayed trial.  An accepted handleLLChoice reads
\* currentDelayMs, sets isWaitingDelay and waits for a delay made for that
\* trial; the trial stays in WaitingDelay while it waits; it enters the
\* consumption animation (isAnimating set, isWaitingDelay cleared) only in the
\* step in which that delay ends naturally; its reward is granted only from
\* the animation, in the step in which the animation ends, with delayAtChoice
\* equal to the value read at the choice; and the flags are all clear after
\* the grant when no other trial is in flight.
C24_DelayedTrialOrdering ==
  [][/\ \A tid \in DOMAIN procs' \ DOMAIN procs :
          procs'[tid].kind = "LL" =>
             /\ procs'[tid].pc = "delay"
             /\ procs'[tid].delayMs = state.currentDelayMs
             /\ state'.isWaitingDelay /\ ~state'.isAnimating
             /\ activeDelay' \in Armed("delay")'
             /\ timers'[activeDelay'].tid = tid
     /\ \A tid \in DOMAIN procs :
          (procs[tid].kind = "LL" /\ procs[tid].pc = "delay") =>
             /\ state.isWaitingDelay
             /\ activeDelay \in activeTimers
             /\ timers[activeDelay].tid = tid
     /\ \A tid \in DOMAIN procs \cap DOMAIN procs' :
          (procs[tid].pc = "delay" /\ procs'[tid].pc = "anim") =>
             /\ DelayCompletesNaturally(tid)
             /\ state'.isAnimating /\ ~state'.isWaitingDelay
             /\ procs'[tid].delayMs = procs[tid].delayMs
     /\ (Len(trials') = Len(trials) + 1
           /\ trials'[Len(trials')].choice = "larger-later") =>
          LET r == trials'[Len(trials')]
          IN /\ r.tid \in DOMAIN procs
             /\ procs[r.tid].kind = "LL"
             /\ AnimationCompletes(r.tid)
             /\ r.delayAtChoice = procs[r.tid].delayMs
             /\ r.tid \notin DOMAIN procs'
             /\ procs' = << >> =>
                  /\ ~state'.isAnimating /\ ~state'.isWaitingDelay
                  /\ ~state'.choicesDisabled]_vars

\* a delayed choice made after an immediate one (at the raised delay) was
\* rewarded: its record carries the delay read at the choice, and the
\* staircase has since moved down from it
C24_Witness ==
  /\ Len(trials) = 2
  /\ trials[1].choice = "smaller-sooner"
  /\ trials[2].choice = "larger-later"
  /\ trials[2].delayAtChoice = INITIAL_DELAY_MS + DELAY_STEP_MS
  /\ state.currentDelayMs = INITIAL_DELAY_MS
  /\ ~state.isWaitingDelay /\ ~state.isAnimating /\ procs = << >>

\* the trials suspended in their delay wait
WaitingTrials == {tid \in DOMAIN procs : procs[tid].pc = "delay"}

\* C25: when triggerGameOver runs while a delayed wait is in flight, the delay
\* and its cosmetic countdown are cancelled together: the waiting handler is
\* resumed with false and bails out (no animation, no reward, no record),
\* both handles are dropped, both closures are out of the registry and have
\* no pending timeout, so that neither can fire or be resumed afterwards
\* (timer ids are never reused).  Once dead, no delayed wait is in flight.
C25_GameOverCancelsDelayAndCountdown ==
  [][/\ (~state.isDead /\ state'.isDead /\ WaitingTrials # {}) =>
          /\ activeDelay # 0 /\ delayCountdownTimer # 0
          /\ timers[activeDelay].kind = "delay"
          /\ timers[delayCountdownTimer].kind = "delay-visual"
          /\ WaitingTrials = {timers[activeDelay].tid}
          /\ \A id \in {activeDelay, delayCountdownTimer} :
                /\ id \notin activeTimers'
                /\ id \notin DOMAIN timers'
          /\ activeDelay' = 0 /\ delayCountdownTimer' = 0
          /\ \A tid \in WaitingTrials : tid \notin DOMAIN procs'
          /\ trials' = trials /\ rewardGrants' = rewardGrants
          /\ ~state'.isWaitingDelay /\ ~state'.isAnimating
     /\ state.isDead =>
          /\ WaitingTrials = {}
          /\ \A id \in DOMAIN timers :
                timers[id].kind \in {"delay", "delay-visual"} =>
                   ~timers[id].armed /\ id \notin activeTimers
     /\ \A id \in DOMAIN timers' \ DOMAIN timers : id > timerId]_vars

\* the segment is over by game-over after one accepted choice that made a
\* delay and its cosmetic countdown (timers 3 and 4, after the decay timer
\* and the segment countdown): the choice was aborted without reward and
\* nothing of the two timers is left
C25_Witness ==
  /\ state.isDead /\ resets = 1 /\ accepted = 1 /\ timerId = 4
  /\ procs = << >> /\ trials = << >> /\ rewardGrants = 0
  /\ activeDelay = 0 /\ delayCountdownTimer = 0
  /\ \A id \in DOMAIN timers :
        timers[id].kind \notin {"delay", "delay-visual"}

(***************************************************************************)
(* Trials under fair timers.  The tab stays in front; every armed timeout  *)
(* fires in the end (the browser runs a pending timeout once it is due);   *)
(* clicks are not forced.  Two condition segments can follow one another.  *)
(***************************************************************************)
MaxLiveResets == 3

LiveContinueClick ==
  /\ state.phase = "transition" /\ ~state.tabHidden
  /\ resets < MaxLiveResets
  /\ Commit(startCondition(Cur), FALSE)

\* the player makes the immediate choice, and only in the condition segments
LiveFishChoice == state.phase = "condition" /\ FishClick(MaxTrials)

NextLive ==
  \/ StartClick
  \/ LiveContinueClick
  \/ LiveFishChoice
  \/ DrainTick
  \/ CountdownTick
  \/ AnimationFire

SpecLive ==
  /\ Init /\ [][NextLive]_vars
  /\ WF_vars(DrainTick) /\ WF_vars(CountdownTick) /\ WF_vars(AnimationFire)

\* C26: no trial procedure stays suspended for ever.  A handler with
\* pc = "lost" awaits an animation promise that nothing can resolve any more:
\* its timeout has fired without cleaning up and the element's _animCleanup
\* is another animation's.  The claim requires that no such handler exists.
C26_NoTrialSuspendedForever ==
  \A tid \in DOMAIN procs : procs[tid].pc # "lost"

(***************************************************************************)
(* One closure of createTimer alone, for any interval, with a clock of      *)
(* 1 ms: its pending timeout runs tick() when it is due, or later, or up to *)
(* MaxEarlyMs before (the timeout clock and performance.now() are not the   *)
(* same clock); the callback takes up to MaxCallbackMs.                     *)
(* bench holds intervalMs, expected, the clock now, due (when the pending   *)
(* timeout is due) and, as history, fired, lastNow and lastDrift (the now   *)
(* and the drift of the last tick()).                                       *)
(***************************************************************************)
MaxIntervalMs == 4
MaxDriftClockMs == 10
MaxCallbackMs == 2
MaxEarlyMs == 1

engineVars ==
  <<state, timers, activeTimers, timerId, drainTimer, conditionCountdown,
    activeDelay, delayCountdownTimer, procs, animCleanup, trials, accepted,
    rewardGrants, gameOverRuns, resets, choiceEvent, config>>

\* createTimer(callback, intervalMs) at time 0
InitDrift ==
  /\ InitState /\ config = frozenConfig
  /\ \E i \in 1..MaxIntervalMs :
        bench = [intervalMs |-> i, now |-> 0, expected |-> i, due |-> i,
                 fired |-> FALSE, lastNow |-> 0, lastDrift |-> 0]

\* 1 ms passes
DriftAdvance ==
  /\ bench.now < MaxDriftClockMs
  /\ bench' = [bench EXCEPT !.now = @ + 1]
  /\ UNCHANGED engineVars

\* the pending timeout runs tick(); the callback takes c ms
DriftFire ==
  /\ bench.now + MaxEarlyMs >= bench.due
  /\ \E c \in 0..MaxCallbackMs :
        LET now == bench.now
            drift == now - bench.expected
            expected == NextExpected(now, drift, bench.intervalMs)
        IN /\ now + c <= MaxDriftClockMs
           /\ bench' = [bench EXCEPT
                          !.now = now + c,
                          !.expected = expected,
                          !.due = now + c + NextDelay(expected, now + c),
                          !.fired = TRUE,
                          !.lastNow = now,
                          !.lastDrift = drift]
  /\ UNCHANGED engineVars

NextDrift == DriftAdvance \/ DriftFire

SpecDrift == InitDrift /\ [][NextDrift]_vars

\* C27: after every tick() the next expected fire time is
\* now + intervalMs - min(drift, intervalMs - 1); it lies at least 1 ms after
\* the now of that tick and, when the drift was not negative, at most
\* intervalMs after it; the timeout that is then set is due no earlier than
\* that expected time.
C27_DriftCorrection ==
  bench.fired =>
    /\ bench.expected
         = bench.lastNow + bench.intervalMs
             - Min(bench.lastDrift, bench.intervalMs - 1)
    /\ bench.expected - bench.lastNow >= 1
    /\ bench.lastDrift >= 0 => bench.expected - bench.lastNow <= bench.intervalMs
    /\ bench.due >= bench.expected

\* a tick() that ran a whole interval or more late: the drift is cut to
\* intervalMs - 1 and the next fire is expected 1 ms after that tick
C27_Witness ==
  /\ bench.fired
  /\ bench.intervalMs > 1
  /\ bench.lastDrift >= bench.intervalMs
  /\ bench.expected = bench.lastNow + 1

\* C28: segment isolation of trials.  Once the segment has ended and the
\* transition screen is shown, no step other than the start of the next
\* segment grants a reward, emits a trial record, moves the staircase or
\* changes the busy flags; and a trial record is only emitted in a phase of
\* the kind in which its choice was accepted.
C28_SegmentIsolation ==
  [][/\ (state.phase = "transition" /\ resets' = resets) =>
          /\ trials' = trials /\ rewardGrants' = rewardGrants
          /\ state'.totalEnergyGained = state.totalEnergyGained
          /\ state'.currentDelayMs = state.currentDelayMs
          /\ state'.isAnimating = state.isAnimating
          /\ state'.isWaitingDelay = state.isWaitingDelay
          /\ state'.choicesDisabled = state.choicesDisabled
     /\ Len(trials') = Len(trials) + 1 =>
          /\ trials'[Len(trials')].tid \in DOMAIN procs
          /\ procs[trials'[Len(trials')].tid].phase = state.phase]_vars

\* the sum of pointsEarned over the first n trial records
RECURSIVE SumPoints(_)
SumPoints(n) ==
  IF n = 0 THEN 0 ELSE SumPoints(n - 1) + trials[n].pointsEarned

\* C29: totalEnergyGained is the sum of pointsEarned over all trial records
\* emitted so far; every record carries the running sum up to itself, every
\* reward is positive (so the total never decreases), whatever the energy
\* ceiling cut and whatever resets happened.
C29_TotalIsSumOfPoints ==
  /\ state.totalEnergyGained = SumPoints(Len(trials))
  /\ \A n \in 1..Len(trials) :
        /\ trials[n].totalEnergyGained = SumPoints(n)
        /\ trials[n].pointsEarned > 0

\* five delayed rewards and then an immediate one were granted in one
\* segment, 51 points from a start of 50 with a ceiling of 100: the energy is
\* at the ceiling and the total counts every reward in full
C29_Witness ==
  /\ Len(trials) = 6
  /\ trials[5].totalEnergyGained = 5 * EXPOSURE_REWARD
  /\ trials[6].pointsEarned = SMALLER_SOONER_REWARD
  /\ state.totalEnergyGained = 5 * EXPOSURE_REWARD + SMALLER_SOONER_REWARD
  /\ state.currentEnergy = MAX_ENERGY

\* C30: trialNumber counts the accepted choices of the segment: it is set to
\* 0 by a reset, incremented exactly when a choice is accepted and otherwise
\* left alone; and the trial records that carry the same segment (phase and
\* conditionIndex) have strictly increasing trialNumber values, starting
\* from 1 or more.
C30_TrialNumberCountsAccepted ==
  [][/\ state'.trialNumber =
          IF resets' # resets THEN 0
          ELSE IF accepted' # accepted THEN state.trialNumber + 1
          ELSE state.trialNumber
     /\ \A i, j \in 1..Len(trials') :
          (/\ i < j
           /\ trials'[i].phase = trials'[j].phase
           /\ trials'[i].conditionIndex = trials'[j].conditionIndex) =>
             /\ trials'[i].trialNumber >= 1
             /\ trials'[i].trialNumber < trials'[j].trialNumber]_vars

====
